---- MODULE Spec2Model ----
(***************************************************************************)
(* Model of w3af's InstrumentedChrome controller                           *)
(* (w3af/core/controllers/chrome/instrumented.py): the page state machine  *)
(* driven by inbound devtools events, the public commands that touch the   *)
(* page state, the polling waits, the generic pagination generator, the    *)
(* event dispatch input validation, the fault tolerant teardown and the    *)
(* EventListener value equality.                                           *)
(***************************************************************************)
EXTENDS Integers, Sequences, FiniteSets, TLC

VARIABLES
    \* InstrumentedChrome instance fields
    page_state,
    frame_stopped_loading_event,
    frame_scheduled_navigation,
    network_almost_idle_event,
    execution_context_created,
    proxy,
    chrome_process,
    chrome_conn,
    \* outcome of the last operation: commands it sent, exception it raised
    sent,
    raised,
    teardown_attempts,
    teardown_calls,
    teardown_logged,
    \* history variables (not program state)
    last_op,
    last_msg,
    last_writer,
    prev_page_state,
    nav_armed,
    delivered,
    reterminated,
    prev_flags,
    stop_in_force,
    \* wait_for_load() in progress on a caller thread
    wfl_pc,
    wfl_T,
    wfl_timeout,
    wfl_elapsed,
    wfl_result,
    wfl_loaded_at_poll,
    wfl_after_stop,
    \* one invocation of the _paginate() generator
    pag_pc,
    pag_N,
    pag_start,
    pag_page,
    pag_page_items,
    pag_fetches,
    pag_yielded,
    pag_listing,
    pag_sentinel_at,
    pag_log,
    pag_raised,
    \* a second generator, suspended while the consumer of the first runs
    pag_parked,
    \* two EventListener instances and the results of comparing them
    ev_a,
    ev_b,
    eq_pc,
    eq_aa,
    eq_ab,
    eq_ba,
    \* dispatch_js_event() call
    dj_pc,
    dj_selector,
    dj_event_type,
    dj_expression,
    dj_result,
    dj_outcome,
    \* __init__: how far it got
    init_pc,
    init_steps,
    \* the correlation id: self.debugging_id and the copy each collaborator holds
    debugging_id,
    proxy_debugging_id,
    process_debugging_id,
    conn_debugging_id,
    \* logging.root.manager.disable, and terminate() step by step around its
    \* AllLoggingDisabled block
    logging_disable,
    trm_pc,
    trm_fails,
    previous_level,
    trm_level_before,
    trm_close_raised,
    \* _page_state_handler field access by field access on the event thread:
    \* where it is, the message it handles, the flag the join reads next
    h_pc,
    h_msg,
    h_i,
    \* history of that run: what started the current load, the sub-events
    \* delivered since, whether the pending wait began inside it
    f_epoch,
    f_since,
    f_wait_ok,
    \* _js_runtime_evaluate() call
    jre_pc,
    jre_expression,
    jre_response,
    jre_value,
    \* navigation_started() in progress on a caller thread
    ns_pc,
    ns_T,
    ns_timeout,
    ns_elapsed,
    ns_result,
    ns_seen_loading,
    \* a command of a caller thread, statement by statement
    cmd,
    cmd_done

pageVars == <<page_state, frame_stopped_loading_event, frame_scheduled_navigation,
              network_almost_idle_event, execution_context_created>>
handleVars == <<proxy, chrome_process, chrome_conn>>
opVars == <<sent, raised, teardown_attempts, teardown_calls, teardown_logged>>
histVars == <<last_op, last_msg, last_writer, prev_page_state, nav_armed,
              delivered, reterminated, prev_flags, stop_in_force>>
wflVars == <<wfl_pc, wfl_T, wfl_timeout, wfl_elapsed, wfl_result, wfl_loaded_at_poll,
             wfl_after_stop>>
pagVars == <<pag_pc, pag_N, pag_start, pag_page, pag_page_items, pag_fetches,
             pag_yielded, pag_listing, pag_sentinel_at, pag_log, pag_raised, pag_parked>>
eqVars == <<ev_a, ev_b, eq_pc, eq_aa, eq_ab, eq_ba>>
djVars == <<dj_pc, dj_selector, dj_event_type, dj_expression, dj_result, dj_outcome>>
idVars == <<debugging_id, proxy_debugging_id, process_debugging_id, conn_debugging_id>>
logVars == <<logging_disable, trm_pc, trm_fails, previous_level, trm_level_before,
             trm_close_raised>>
fieldVars == <<h_pc, h_msg, h_i, f_epoch, f_since, f_wait_ok>>
\* what only construction, set_debugging_id, the stepwise terminate() and the
\* stepwise event handler touch
ctorVars == <<init_pc, init_steps, idVars, logVars, fieldVars>>
jreVars == <<jre_pc, jre_expression, jre_response, jre_value>>
nsVars == <<ns_pc, ns_T, ns_timeout, ns_elapsed, ns_result>>
cmdVars == <<cmd, cmd_done>>
restVars == <<ctorVars, jreVars, nsVars, ns_seen_loading, cmdVars>>

vars == <<pageVars, handleVars, opVars, histVars, wflVars, pagVars, eqVars, djVars,
          restVars>>

----------------------------------------------------------------------------
(* Python values *)

None == "None"
PyTrue == "True"
PyFalse == "False"

\* the handle of a collaborator that is up, and an attribute that was never
\* assigned
Live == "live"
Unset == "<unset>"

Range(s) == {s[i] : i \in 1..Len(s)}

----------------------------------------------------------------------------
(* Class constants of InstrumentedChrome *)

PAGE_STATE_NONE == 0
PAGE_STATE_LOADING == 1
PAGE_STATE_LOADED == 2

\* seconds
PAGE_LOAD_TIMEOUT == 10
PAGE_WILL_CHANGE_TIMEOUT == 1

PAGINATION_PAGE_COUNT == 20

----------------------------------------------------------------------------
(* Inbound devtools messages.  A message is a dict; the model keeps the   *)
(* two keys the handlers look at: "method", and the "name" inside         *)
(* "params".                                                               *)

Absent == "<absent>"
NoParams == "<no params>"
NoName == "<no name>"

FrameScheduledNavigation == "Page.frameScheduledNavigation"
FrameStoppedLoading == "Page.frameStoppedLoading"
LifecycleEvent == "Page.lifecycleEvent"
ExecutionContextCreated == "Runtime.executionContextCreated"
NetworkAlmostIdle == "networkAlmostIdle"

Msg(method, params) == [method |-> method, params |-> params]

Messages ==
    {Msg(Absent, NoParams)}
    \cup {Msg(m, NoParams) : m \in {FrameScheduledNavigation, FrameStoppedLoading,
                                     ExecutionContextCreated, "Page.frameNavigated"}}
    \cup {Msg(LifecycleEvent, p) : p \in {NoParams, NoName, NetworkAlmostIdle, "load"}}

\* the three sub-events whose join means "page loaded"
SubEvents == {FrameStoppedLoading, NetworkAlmostIdle, ExecutionContextCreated}

\* which of the three sub-events a message is, or Absent
SubEventOf(m) ==
    IF m.method = FrameStoppedLoading THEN FrameStoppedLoading
    ELSE IF m.method = ExecutionContextCreated THEN ExecutionContextCreated
    ELSE IF m.method = LifecycleEvent /\ m.params = NetworkAlmostIdle THEN NetworkAlmostIdle
    ELSE Absent

----------------------------------------------------------------------------
(* The page state kept by the instance, as one record *)

PageRec == [page_state |-> page_state,
            frame_stopped_loading_event |-> frame_stopped_loading_event,
            frame_scheduled_navigation |-> frame_scheduled_navigation,
            network_almost_idle_event |-> network_almost_idle_event,
            execution_context_created |-> execution_context_created]

\* Mutant: the handler keeps a LOADED page as it is
NavigatorStartedHandler_KeepLoaded(m, st) ==
    IF m.method = Absent THEN st
    ELSE IF m.method = FrameScheduledNavigation /\ st.page_state # PAGE_STATE_LOADED
    THEN [st EXCEPT !.frame_scheduled_navigation = PyTrue,
                    !.frame_stopped_loading_event = PyFalse,
                    !.network_almost_idle_event = PyFalse,
                    !.execution_context_created = PyFalse,
                    !.page_state = PAGE_STATE_LOADING]
    ELSE st

\* Mutant: the handler resets the flags and forgets the page state
NavigatorStartedHandler_NoState(m, st) ==
    IF m.method = Absent THEN st
    ELSE IF m.method = FrameScheduledNavigation
    THEN [st EXCEPT !.frame_scheduled_navigation = PyTrue,
                    !.frame_stopped_loading_event = PyFalse,
                    !.network_almost_idle_event = PyFalse,
                    !.execution_context_created = PyFalse]
    ELSE st

\* _navigator_started_handler
NavigatorStartedHandler(m, st) ==
    IF m.method = Absent THEN st
    ELSE IF m.method = FrameScheduledNavigation
    THEN [st EXCEPT !.frame_scheduled_navigation = PyTrue,
                    !.frame_stopped_loading_event = PyFalse,
                    !.network_almost_idle_event = PyFalse,
                    !.execution_context_created = PyFalse,
                    !.page_state = PAGE_STATE_LOADING]
    ELSE st

\* Mutant: a sub-event leaves _frame_scheduled_navigation as it is
SetEventFlags_KeepScheduled(m, st) ==
    IF m.method = FrameStoppedLoading
    THEN [st EXCEPT !.frame_stopped_loading_event = PyTrue]
    ELSE IF m.method = LifecycleEvent /\ m.params = NetworkAlmostIdle
    THEN [st EXCEPT !.network_almost_idle_event = PyTrue]
    ELSE IF m.method = ExecutionContextCreated
    THEN [st EXCEPT !.execution_context_created = PyTrue]
    ELSE st

\* Mutant: a frame that stops loading discards the execution context seen
\* before it, which makes the join depend on the order of the events
SetEventFlags_OrderDependent(m, st) ==
    IF m.method = FrameStoppedLoading
    THEN [st EXCEPT !.frame_scheduled_navigation = PyFalse,
                    !.frame_stopped_loading_event = PyTrue,
                    !.execution_context_created = PyFalse]
    ELSE IF m.method = LifecycleEvent /\ m.params = NetworkAlmostIdle
    THEN [st EXCEPT !.frame_scheduled_navigation = PyFalse,
                    !.network_almost_idle_event = PyTrue]
    ELSE IF m.method = ExecutionContextCreated
    THEN [st EXCEPT !.frame_scheduled_navigation = PyFalse,
                    !.execution_context_created = PyTrue]
    ELSE st

\* the if / elif chain of _load_url_finished_handler for a message that has
\* a method and does not leave through one of the early returns
SetEventFlags(m, st) ==
    IF m.method = FrameStoppedLoading
    THEN [st EXCEPT !.frame_scheduled_navigation = PyFalse,
                    !.frame_stopped_loading_event = PyTrue]
    ELSE IF m.method = LifecycleEvent /\ m.params = NetworkAlmostIdle
    THEN [st EXCEPT !.frame_scheduled_navigation = PyFalse,
                    !.network_almost_idle_event = PyTrue]
    ELSE IF m.method = ExecutionContextCreated
    THEN [st EXCEPT !.frame_scheduled_navigation = PyFalse,
                    !.execution_context_created = PyTrue]
    ELSE st

\* Mutant: the join waits for two of the three events only
AllEventsReceived_TwoOnly(st) ==
    /\ st.network_almost_idle_event = PyTrue
    /\ st.frame_stopped_loading_event = PyTrue

\* the condition of the last if of _load_url_finished_handler; None and
\* False are both falsy
AllEventsReceived(st) ==
    /\ st.network_almost_idle_event = PyTrue
    /\ st.frame_stopped_loading_event = PyTrue
    /\ st.execution_context_created = PyTrue

\* the early returns of _load_url_finished_handler
ReturnsEarly(m) ==
    \/ m.method = Absent
    \/ m.method = LifecycleEvent /\ m.params \in {NoParams, NoName}

\* _load_url_finished_handler
LoadUrlFinishedHandler(m, st) ==
    IF ReturnsEarly(m) THEN st
    ELSE LET st1 == SetEventFlags(m, st)
         IN  IF AllEventsReceived(st1)
             THEN [st1 EXCEPT !.page_state = PAGE_STATE_LOADED]
             ELSE st1

\* TRUE when handling m in st executes an assignment to _page_state
HandlerWritesPageState(m, st) ==
    \/ m.method = FrameScheduledNavigation
    \/ /\ ~ReturnsEarly(m)
       /\ AllEventsReceived(SetEventFlags(m, NavigatorStartedHandler(m, st)))

SetPageRec(st) ==
    /\ page_state' = st.page_state
    /\ frame_stopped_loading_event' = st.frame_stopped_loading_event
    /\ frame_scheduled_navigation' = st.frame_scheduled_navigation
    /\ network_almost_idle_event' = st.network_almost_idle_event
    /\ execution_context_created' = st.execution_context_created

\* the four flags
Flags == <<frame_stopped_loading_event, frame_scheduled_navigation,
           network_almost_idle_event, execution_context_created>>

\* history bookkeeping of an operation other than the event handler
CommandHistory(op) ==
    /\ prev_flags' = Flags
    /\ stop_in_force' = (op = "stop")
    /\ last_op' = op
    /\ last_msg' = Msg(Absent, NoParams)
    /\ last_writer' = op
    /\ prev_page_state' = page_state
    /\ nav_armed' = FALSE
    /\ delivered' = <<>>

\* what _page_state_handler does to the instance
PageStateHandlerCode(m) ==
    /\ SetPageRec(LoadUrlFinishedHandler(m, NavigatorStartedHandler(m, PageRec)))
    /\ UNCHANGED <<handleVars, opVars>>

\* _page_state_handler: the callback of the connection's event thread
PageStateHandler(m) ==
    /\ PageStateHandlerCode(m)
    /\ last_op' = "event"
    /\ last_msg' = m
    /\ prev_flags' = Flags
    /\ stop_in_force' = (stop_in_force /\ m.method # FrameScheduledNavigation)
    /\ last_writer' = IF HandlerWritesPageState(m, PageRec) THEN "event" ELSE last_writer
    /\ prev_page_state' = page_state
    /\ nav_armed' = (nav_armed \/ m.method = FrameScheduledNavigation)
    /\ delivered' =
          IF m.method = FrameScheduledNavigation THEN <<>>
          ELSE IF /\ nav_armed
                  /\ SubEventOf(m) # Absent
                  /\ SubEventOf(m) \notin Range(delivered)
               THEN Append(delivered, SubEventOf(m))
               ELSE delivered
    /\ UNCHANGED reterminated

\* a command sent through self.chrome_conn: AttributeError when the handle
\* is None
SendResult(conn, command) ==
    IF conn = None
    THEN [sent |-> <<>>, raised |-> "AttributeError"]
    ELSE [sent |-> <<command>>, raised |-> None]

\* Mutant: load_url clears the three flags of the previous load
LoadUrlCode_ClearsFlags ==
    /\ page_state' = PAGE_STATE_LOADING
    /\ frame_stopped_loading_event' = PyFalse
    /\ network_almost_idle_event' = PyFalse
    /\ execution_context_created' = PyFalse
    /\ sent' = SendResult(chrome_conn, "Page.navigate").sent
    /\ raised' = SendResult(chrome_conn, "Page.navigate").raised
    /\ UNCHANGED <<frame_scheduled_navigation,
                   handleVars, teardown_attempts, teardown_calls, teardown_logged>>

\* what load_url, load_about_blank do to the instance
LoadUrlCode ==
    /\ page_state' = PAGE_STATE_LOADING
    /\ sent' = SendResult(chrome_conn, "Page.navigate").sent
    /\ raised' = SendResult(chrome_conn, "Page.navigate").raised
    /\ UNCHANGED <<frame_stopped_loading_event, frame_scheduled_navigation,
                   network_almost_idle_event, execution_context_created,
                   handleVars, teardown_attempts, teardown_calls, teardown_logged>>

\* load_url, load_about_blank
LoadUrl ==
    /\ LoadUrlCode
    /\ CommandHistory("load_url")
    /\ UNCHANGED reterminated

\* what navigate_to_history_index does to the instance
NavigateToHistoryIndexCode ==
    /\ page_state' = PAGE_STATE_LOADING
    /\ sent' = SendResult(chrome_conn, "Page.navigateToHistoryEntry").sent
    /\ raised' = SendResult(chrome_conn, "Page.navigateToHistoryEntry").raised
    /\ UNCHANGED <<frame_stopped_loading_event, frame_scheduled_navigation,
                   network_almost_idle_event, execution_context_created,
                   handleVars, teardown_attempts, teardown_calls, teardown_logged>>

\* navigate_to_history_index
NavigateToHistoryIndex ==
    /\ NavigateToHistoryIndexCode
    /\ CommandHistory("navigate_to_history_index")
    /\ UNCHANGED reterminated

\* what stop does to the instance
StopCode ==
    /\ page_state' = PAGE_STATE_LOADED
    /\ sent' = SendResult(chrome_conn, "Page.stopLoading").sent
    /\ raised' = SendResult(chrome_conn, "Page.stopLoading").raised
    /\ UNCHANGED <<frame_stopped_loading_event, frame_scheduled_navigation,
                   network_almost_idle_event, execution_context_created,
                   handleVars, teardown_attempts, teardown_calls, teardown_logged>>

\* stop
Stop ==
    /\ StopCode
    /\ CommandHistory("stop")
    /\ UNCHANGED reterminated

----------------------------------------------------------------------------
(* terminate() *)

ProxyStop == "proxy.stop"
ConnClose == "chrome_conn.close"
ProcessTerminate == "chrome_process.terminate"
TeardownSteps == {ProxyStop, ConnClose, ProcessTerminate}

\* Mutant: __str__ dereferences the handles without the "is not None" tests
Str_NoGuard(p, pr) ==
    IF p \in {Unset, None} \/ pr \in {Unset, None} THEN "AttributeError" ELSE None

\* __str__ (with get_pid), called by the first line of terminate(): the
\* exception it raises.  A None handle is skipped, a missing attribute is not.
Str(p, pr) ==
    IF p = Unset \/ pr = Unset THEN "AttributeError" ELSE None

\* the exception raised by handle.step(): fails is the set of steps whose
\* collaborator raises
Call(handle, step, fails) ==
    IF handle \in {Unset, None} THEN "AttributeError"
    ELSE IF step \in fails THEN "Exception"
    ELSE None

\* Mutant: the call is not wrapped in try / except
TryCall_NoCatch(handle, step, fails) ==
    [raised |-> Call(handle, step, fails), logged |-> FALSE]

\* try: handle.step() except Exception, e: om.out.debug(...)
TryCall(handle, step, fails) ==
    [raised |-> None, logged |-> Call(handle, step, fails) # None]

\* one try block of terminate() after what ran before it
RunStep(acc, handle, step, fails) ==
    IF acc.raised # None THEN acc
    ELSE LET r == TryCall(handle, step, fails)
         IN  [attempts |-> Append(acc.attempts, step),
              calls |-> IF handle \in {Unset, None} THEN acc.calls
                        ELSE Append(acc.calls, step),
              logged |-> IF r.logged THEN acc.logged \cup {step} ELSE acc.logged,
              raised |-> r.raised]

\* terminate() up to the last try block
TerminateRun(fails, p, c, pr) ==
    LET a0 == [attempts |-> <<>>, calls |-> <<>>, logged |-> {}, raised |-> Str(p, pr)]
        a1 == RunStep(a0, p, ProxyStop, fails)
        a2 == RunStep(a1, c, ConnClose, fails)
    IN  RunStep(a2, pr, ProcessTerminate, fails)

\* what terminate does to the instance
TerminateCode(fails) ==
    LET run == TerminateRun(fails, proxy, chrome_conn, chrome_process)
    IN  /\ teardown_attempts' = run.attempts
        /\ teardown_calls' = run.calls
        /\ teardown_logged' = run.logged
        /\ raised' = run.raised
        /\ sent' = <<>>
        /\ IF run.raised = None
           THEN /\ proxy' = None
                /\ chrome_process' = None
                /\ chrome_conn' = None
                /\ page_state' = PAGE_STATE_NONE
           ELSE UNCHANGED <<proxy, chrome_process, chrome_conn, page_state>>
        /\ UNCHANGED <<frame_stopped_loading_event, frame_scheduled_navigation,
                       network_almost_idle_event, execution_context_created>>

\* terminate
Terminate(fails) ==
    LET run == TerminateRun(fails, proxy, chrome_conn, chrome_process)
    IN  /\ TerminateCode(fails)
        /\ last_writer' = IF run.raised = None THEN "terminate" ELSE last_writer
        /\ last_op' = "terminate"
        /\ prev_flags' = Flags
        /\ stop_in_force' = FALSE
        /\ last_msg' = Msg(Absent, NoParams)
        /\ prev_page_state' = page_state
        /\ nav_armed' = FALSE
        /\ delivered' = <<>>
        /\ reterminated' = (proxy = None /\ chrome_conn = None /\ chrome_process = None)

----------------------------------------------------------------------------
(* Initial states *)

\* __init__ of a controller whose construction succeeded
InitController ==
    /\ page_state = PAGE_STATE_NONE
    /\ frame_stopped_loading_event = None
    /\ frame_scheduled_navigation = None
    /\ network_almost_idle_event = None
    /\ execution_context_created = None
    /\ proxy = Live
    /\ chrome_process = Live
    /\ chrome_conn = Live
    /\ sent = <<>>
    /\ raised = None
    /\ teardown_attempts = <<>>
    /\ teardown_calls = <<>>
    /\ teardown_logged = {}
    /\ last_op = "init"
    /\ last_msg = Msg(Absent, NoParams)
    /\ last_writer = "init"
    /\ prev_page_state = PAGE_STATE_NONE
    /\ nav_armed = FALSE
    /\ delivered = <<>>
    /\ reterminated = FALSE
    /\ prev_flags = <<None, None, None, None>>
    /\ stop_in_force = FALSE
    /\ init_pc = "constructed"
    /\ init_steps = <<"start_proxy", "start_chrome_process", "connect_to_chrome",
                      "set_event_handler", "set_chrome_settings">>

\* no wait_for_load() call
InitWait ==
    /\ wfl_pc = "idle"
    /\ wfl_T = 0
    /\ wfl_timeout = 0
    /\ wfl_elapsed = 0
    /\ wfl_result = None
    /\ wfl_loaded_at_poll = FALSE
    /\ wfl_after_stop = FALSE

\* the frame of a generator nobody created
NoGenerator ==
    [pc |-> "idle", N |-> 0, start |-> 0, page |-> <<>>, page_items |-> 0,
     fetches |-> 0, yielded |-> <<>>, listing |-> "js_event_listeners",
     sentinel_at |-> 0, log |-> <<>>, raised |-> None]

\* no _paginate() generator
InitPaginate ==
    /\ pag_pc = "idle"
    /\ pag_N = 0
    /\ pag_start = 0
    /\ pag_page = <<>>
    /\ pag_page_items = 0
    /\ pag_fetches = 0
    /\ pag_yielded = <<>>
    /\ pag_listing = "js_event_listeners"
    /\ pag_sentinel_at = 0
    /\ pag_log = <<>>
    /\ pag_raised = None
    /\ pag_parked = NoGenerator

\* no EventListener comparison
InitEq ==
    /\ ev_a = <<>>
    /\ ev_b = <<>>
    /\ eq_pc = "idle"
    /\ eq_aa = None
    /\ eq_ab = None
    /\ eq_ba = None

\* no dispatch_js_event() call
InitDispatch ==
    /\ dj_pc = "idle"
    /\ dj_selector = <<>>
    /\ dj_event_type = <<>>
    /\ dj_expression = <<>>
    /\ dj_result = None
    /\ dj_outcome = None

\* no _js_runtime_evaluate() call
InitEvaluate ==
    /\ jre_pc = "idle"
    /\ jre_expression = <<>>
    /\ jre_response = [shape |-> "null", exceptionDetails |-> FALSE, value |-> None]
    /\ jre_value = None

\* no navigation_started() call
InitNavigationStarted ==
    /\ ns_pc = "idle"
    /\ ns_T = 0
    /\ ns_timeout = 0
    /\ ns_elapsed = 0
    /\ ns_result = None
    /\ ns_seen_loading = FALSE

\* self.debugging_id = None (line 80); no collaborator was given an id
InitDebuggingId ==
    /\ debugging_id = None
    /\ proxy_debugging_id = None
    /\ process_debugging_id = None
    /\ conn_debugging_id = None

\* the levels of the logging module that matter here
LOGGING_NOTSET == 0
LOGGING_INFO == 20
LOGGING_CRITICAL == 50

\* nothing disabled, no terminate() in progress, no AllLoggingDisabled object
InitLogging ==
    /\ logging_disable = LOGGING_NOTSET
    /\ trm_pc = "idle"
    /\ trm_fails = {}
    /\ previous_level = None
    /\ trm_level_before = LOGGING_NOTSET
    /\ trm_close_raised = FALSE

\* the event thread is between two messages
InitFields ==
    /\ h_pc = "idle"
    /\ h_msg = Msg(Absent, NoParams)
    /\ h_i = 1
    /\ f_epoch = "none"
    /\ f_since = {}
    /\ f_wait_ok = FALSE

\* no command in progress
InitCommand ==
    /\ cmd = None
    /\ cmd_done = <<>>

----------------------------------------------------------------------------
(* The controller: inbound events and the commands that touch the page     *)
(* state                                                                    *)

InitCallers ==
    InitWait /\ InitPaginate /\ InitEq /\ InitDispatch /\ InitEvaluate
       /\ InitNavigationStarted /\ InitCommand /\ InitDebuggingId /\ InitLogging
       /\ InitFields

Init == InitController /\ InitCallers

Next ==
    \/ \E m \in Messages : PageStateHandler(m) /\ UNCHANGED <<restVars, wflVars, pagVars, eqVars, djVars>>
    \/ LoadUrl /\ UNCHANGED <<restVars, wflVars, pagVars, eqVars, djVars>>
    \/ NavigateToHistoryIndex /\ UNCHANGED <<restVars, wflVars, pagVars, eqVars, djVars>>
    \/ Stop /\ UNCHANGED <<restVars, wflVars, pagVars, eqVars, djVars>>
    \/ \E fails \in SUBSET TeardownSteps :
          Terminate(fails) /\ UNCHANGED <<restVars, wflVars, pagVars, eqVars, djVars>>

Spec == Init /\ [][Next]_vars

----------------------------------------------------------------------------
(* Properties of the page state machine *)

AllThree == <<ProxyStop, ConnClose, ProcessTerminate>>

\* C1: once each of the three sub-events has been handled after a
\* Page.frameScheduledNavigation event (in any order, with repetitions, no
\* command in between) the page state is LOADED.
C1_JoinReachesLoaded ==
    (nav_armed /\ Range(delivered) = SubEvents) => page_state = PAGE_STATE_LOADED

\* the order of the scenario of the specification: context, stopped, idle
C1_Witness ==
    /\ nav_armed
    /\ delivered = <<ExecutionContextCreated, FrameStoppedLoading, NetworkAlmostIdle>>
    /\ last_msg = Msg(LifecycleEvent, NetworkAlmostIdle)
    /\ prev_page_state = PAGE_STATE_LOADING
    /\ page_state = PAGE_STATE_LOADED

\* C2: when _page_state_handler returns from a Page.frameScheduledNavigation
\* event the three sub-flags are False, the navigation flag is True and the
\* page state is LOADING, whatever the state was before.
C2_NavigationScheduledResets ==
    (last_op = "event" /\ last_msg.method = FrameScheduledNavigation) =>
        /\ frame_stopped_loading_event = PyFalse
        /\ network_almost_idle_event = PyFalse
        /\ execution_context_created = PyFalse
        /\ frame_scheduled_navigation = PyTrue
        /\ page_state = PAGE_STATE_LOADING

C2_Witness ==
    /\ last_op = "event"
    /\ last_msg.method = FrameScheduledNavigation
    /\ prev_page_state = PAGE_STATE_LOADED
    /\ page_state = PAGE_STATE_LOADING
    /\ execution_context_created = PyFalse

C4_LoadedIffFlags ==
    (page_state = PAGE_STATE_LOADED) <=> AllEventsReceived(PageRec)

\* C4 as amended: the equivalence holds except for the writes of the
\* commands: a LOADED state without the three flags was written by stop(),
\* and three flags without the LOADED state were left by load_url(),
\* navigate_to_history_index() or terminate().
C4_LoadedIffFlagsUnlessCommand ==
    /\ (page_state = PAGE_STATE_LOADED /\ ~AllEventsReceived(PageRec))
          => last_writer = "stop"
    /\ (AllEventsReceived(PageRec) /\ page_state # PAGE_STATE_LOADED)
          => last_writer \in {"load_url", "navigate_to_history_index", "terminate"}

C4_Witness ==
    /\ last_op = "event"
    /\ last_writer = "stop"
    /\ page_state = PAGE_STATE_LOADED
    /\ execution_context_created = PyTrue
    /\ network_almost_idle_event = PyFalse

----------------------------------------------------------------------------
(* Properties of terminate() *)

\* C9: terminate() enters its three try blocks in the order proxy stop,
\* connection close, process kill, whatever subset of them fails; it raises
\* nothing, and when it returns the three handles are None and the page
\* state is NONE.  On a live controller each collaborator is called once.
C9_TeardownCompletes ==
    last_op = "terminate" =>
        /\ teardown_attempts = AllThree
        /\ (~reterminated => teardown_calls = AllThree)
        /\ raised = None
        /\ proxy = None
        /\ chrome_conn = None
        /\ chrome_process = None
        /\ page_state = PAGE_STATE_NONE

\* the three steps all failed on a loaded page
C9_Witness ==
    /\ last_op = "terminate"
    /\ ~reterminated
    /\ teardown_logged = TeardownSteps
    /\ teardown_calls = AllThree
    /\ prev_page_state = PAGE_STATE_LOADED
    /\ page_state = PAGE_STATE_NONE

\* C10: terminate() on a controller that was terminated before raises
\* nothing and leaves the three handles None and the page state NONE.
C10_TerminateTwice ==
    (last_op = "terminate" /\ reterminated) =>
        /\ raised = None
        /\ proxy = None
        /\ chrome_conn = None
        /\ chrome_process = None
        /\ page_state = PAGE_STATE_NONE

\* the second call reaches no collaborator: each try block logs the
\* AttributeError of its None handle
C10_Witness ==
    /\ last_op = "terminate"
    /\ reterminated
    /\ raised = None
    /\ teardown_calls = <<>>
    /\ teardown_logged = TeardownSteps
    /\ proxy = None

----------------------------------------------------------------------------
(* wait_for_load(): a caller thread polls the page state while the event   *)
(* thread keeps delivering messages.  Time is counted in sleeps of the     *)
(* polling loop.                                                           *)

\* time.sleep(0.1): polls per second
POLLS_PER_SECOND == 10

\* largest timeout a caller passes, in polls
MaxTimeout == 2

\* Mutant: only a missing timeout is replaced by the default
EffectiveTimeout_KeepZero(T) == T

\* timeout = timeout or self.PAGE_LOAD_TIMEOUT, in polls: 0 is falsy
EffectiveTimeout(T) ==
    IF T = 0 THEN PAGE_LOAD_TIMEOUT * POLLS_PER_SECOND ELSE T

\* time.time() - start > timeout
TimedOut(elapsed, timeout) == elapsed > timeout

\* the model stops its clock here; no wait gets that far
ClockCap == PAGE_LOAD_TIMEOUT * POLLS_PER_SECOND + MaxTimeout + 2

\* the call and the two assignments before the loop
WaitForLoadCall(T) ==
    /\ wfl_pc \in {"idle", "returned"}
    /\ wfl_T' = T
    /\ wfl_timeout' = EffectiveTimeout(T)
    /\ wfl_elapsed' = 0
    /\ wfl_result' = None
    /\ wfl_loaded_at_poll' = FALSE
    /\ wfl_after_stop' = FALSE
    /\ wfl_pc' = "poll"

\* one round of the loop up to the sleep
WaitForLoadPoll ==
    /\ wfl_pc = "poll"
    /\ IF page_state = PAGE_STATE_LOADED
       THEN /\ wfl_result' = PyTrue
            /\ wfl_loaded_at_poll' = TRUE
            /\ wfl_pc' = "returned"
       ELSE IF TimedOut(wfl_elapsed, wfl_timeout)
       THEN /\ wfl_result' = PyFalse
            /\ wfl_pc' = "returned"
            /\ UNCHANGED wfl_loaded_at_poll
       ELSE /\ wfl_pc' = "sleep"
            /\ UNCHANGED <<wfl_result, wfl_loaded_at_poll>>
    /\ wfl_after_stop' = stop_in_force
    /\ UNCHANGED <<wfl_T, wfl_timeout, wfl_elapsed>>

\* time.sleep(0.1)
WaitForLoadSleep ==
    /\ wfl_pc = "sleep"
    /\ wfl_elapsed < ClockCap
    /\ wfl_elapsed' = wfl_elapsed + 1
    /\ wfl_pc' = "poll"
    /\ UNCHANGED <<wfl_T, wfl_timeout, wfl_result, wfl_loaded_at_poll, wfl_after_stop>>

\* the messages that move the page state
LoadMessages ==
    {Msg(m, NoParams) : m \in {FrameScheduledNavigation, FrameStoppedLoading,
                               ExecutionContextCreated}}
    \cup {Msg(LifecycleEvent, NetworkAlmostIdle)}

NextWait ==
    \/ \E T \in 0..MaxTimeout :
          WaitForLoadCall(T) /\ UNCHANGED <<restVars, pageVars, handleVars, opVars, histVars,
                                            pagVars, eqVars, djVars>>
    \/ WaitForLoadPoll /\ UNCHANGED <<restVars, pageVars, handleVars, opVars, histVars,
                                      pagVars, eqVars, djVars>>
    \/ WaitForLoadSleep /\ UNCHANGED <<restVars, pageVars, handleVars, opVars, histVars,
                                       pagVars, eqVars, djVars>>
    \/ \E m \in LoadMessages :
          PageStateHandler(m) /\ UNCHANGED <<restVars, wflVars, pagVars, eqVars, djVars>>
    \/ LoadUrl /\ UNCHANGED <<restVars, wflVars, pagVars, eqVars, djVars>>
    \/ Stop /\ UNCHANGED <<restVars, wflVars, pagVars, eqVars, djVars>>

SpecWait == Init /\ [][NextWait]_vars

\* C5: wait_for_load(T) returns True exactly when a poll saw the page
\* LOADED and False otherwise, and it returns at most one poll interval
\* after T, for every T >= 0.
C5_WaitForLoadContract ==
    wfl_pc = "returned" =>
        /\ wfl_elapsed <= wfl_T + 1
        /\ (wfl_result = PyTrue <=> wfl_loaded_at_poll)
        /\ (wfl_result = PyFalse <=> ~wfl_loaded_at_poll)

----------------------------------------------------------------------------
(* _paginate(): one generator over a static dataset of pag_N items, which  *)
(* are named by their positions 0 .. pag_N - 1.  The generator runs when   *)
(* its consumer asks for the next item.                                    *)

\* largest dataset
MaxItems == 41

Min(a, b) == IF a < b THEN a ELSE b

\* functor(start, count): the items at positions start .. min(start + count, N) - 1
FetchPage(start, count, N) ==
    IF start >= N THEN <<>>
    ELSE [i \in 1..(Min(start + count, N) - start) |-> start + i - 1]

\* Mutant: a full page ends the iteration too
ShortPage_OrFull(page_items) == page_items <= PAGINATION_PAGE_COUNT

\* if page_items < self.PAGINATION_PAGE_COUNT: break
ShortPage(page_items) == page_items < PAGINATION_PAGE_COUNT

\* the three listings; the set-intervals listing is written like the
\* set-timeouts one
Listings == {"js_set_timeouts", "js_event_listeners", "html_event_listeners"}

\* get_js_variable_value() for one page: the items, or the no-result
\* sentinel None
EvaluatePage(start, count, N, sentinel) ==
    IF sentinel THEN [none |-> TRUE, items |-> <<>>]
    ELSE [none |-> FALSE, items |-> FetchPage(start, count, N)]

\* what functor(start, count) hands to the for loop of _paginate: the
\* *_paginated methods of the timers return the evaluated value as it is,
\* those of the event listeners are generators that end on None
Functor(listing, start, count, N, sentinel) ==
    LET v == EvaluatePage(start, count, N, sentinel)
    IN  IF listing = "js_set_timeouts"
        THEN [iterable |-> ~v.none, items |-> v.items]
        ELSE [iterable |-> TRUE, items |-> v.items]

\* Mutant: the first page is fetched when the generator is created
PaginateCallListing_Eager(listing, N, sentinelAt) ==
    /\ pag_pc \in {"idle", "done", "raised"}
    /\ pag_pc' = "created"
    /\ pag_N' = N
    /\ pag_start' = 0
    /\ pag_page' = <<>>
    /\ pag_page_items' = 0
    /\ pag_fetches' = 1
    /\ pag_yielded' = <<>>
    /\ pag_listing' = listing
    /\ pag_sentinel_at' = sentinelAt
    /\ pag_log' = <<<<0, PAGINATION_PAGE_COUNT>>>>
    /\ pag_raised' = None

\* a caller creates the generator of a listing over N items whose
\* sentinelAt-th page evaluates to None (0: none does): nothing runs yet
PaginateCallListing(listing, N, sentinelAt) ==
    /\ pag_pc \in {"idle", "done", "raised"}
    /\ pag_pc' = "created"
    /\ pag_N' = N
    /\ pag_start' = 0
    /\ pag_page' = <<>>
    /\ pag_page_items' = 0
    /\ pag_fetches' = 0
    /\ pag_yielded' = <<>>
    /\ pag_listing' = listing
    /\ pag_sentinel_at' = sentinelAt
    /\ pag_log' = <<>>
    /\ pag_raised' = None

\* a caller creates the generator over a page-fetch function that answers
PaginateCall(N) ==
    /\ PaginateCallListing("js_event_listeners", N, 0)
    /\ UNCHANGED pag_parked

\* the generator yields the next item of the page it is iterating
PaginateYield ==
    /\ pag_pc = "suspended"
    /\ pag_page # <<>>
    /\ pag_yielded' = Append(pag_yielded, Head(pag_page))
    /\ pag_page' = Tail(pag_page)
    /\ pag_page_items' = pag_page_items + 1
    /\ UNCHANGED <<pag_pc, pag_N, pag_start, pag_fetches, pag_listing, pag_sentinel_at,
                   pag_log, pag_raised, pag_parked>>

\* the generator starts the page at newStart: it yields the first item of
\* the page, or ends on an empty page
PaginateFetch(newStart) ==
    LET r == Functor(pag_listing, newStart, PAGINATION_PAGE_COUNT, pag_N,
                     pag_fetches + 1 = pag_sentinel_at)
        page == r.items
    IN  /\ pag_start' = newStart
        /\ pag_fetches' = pag_fetches + 1
        /\ pag_log' = Append(pag_log, <<newStart, PAGINATION_PAGE_COUNT>>)
        /\ IF ~r.iterable
           THEN \* for result in None: TypeError leaves the generator
                /\ pag_page_items' = 0
                /\ pag_page' = <<>>
                /\ pag_pc' = "raised"
                /\ pag_raised' = "TypeError"
                /\ UNCHANGED pag_yielded
           ELSE IF page = <<>>
           THEN /\ pag_page_items' = 0
                /\ pag_page' = <<>>
                /\ pag_pc' = IF ShortPage(0) THEN "done" ELSE "suspended"
                /\ UNCHANGED <<pag_yielded, pag_raised>>
           ELSE /\ pag_page_items' = 1
                /\ pag_page' = Tail(page)
                /\ pag_yielded' = Append(pag_yielded, Head(page))
                /\ pag_pc' = "suspended"
                /\ UNCHANGED pag_raised
        /\ UNCHANGED <<pag_N, pag_listing, pag_sentinel_at, pag_parked>>

\* the first next(): start = 0 and the first round of the while loop
PaginateFirst ==
    /\ pag_pc = "created"
    /\ PaginateFetch(0)

\* next() after the last item of a page: the test that ends the loop, or
\* start += PAGINATION_PAGE_COUNT and the next round
PaginateAdvance ==
    /\ pag_pc = "suspended"
    /\ pag_page = <<>>
    /\ IF ShortPage(pag_page_items)
       THEN /\ pag_pc' = "done"
            /\ UNCHANGED <<pag_N, pag_start, pag_page, pag_page_items, pag_fetches,
                           pag_yielded, pag_listing, pag_sentinel_at, pag_log,
                           pag_raised, pag_parked>>
       ELSE PaginateFetch(pag_start + PAGINATION_PAGE_COUNT)

\* next() on the generator
PaginateNext == PaginateFirst \/ PaginateYield \/ PaginateAdvance

NextPaginate ==
    \/ \E N \in 0..MaxItems :
          PaginateCall(N) /\ UNCHANGED <<restVars, pageVars, handleVars, opVars, histVars,
                                         wflVars, eqVars, djVars>>
    \/ PaginateNext /\ UNCHANGED <<restVars, pageVars, handleVars, opVars, histVars,
                                   wflVars, eqVars, djVars>>

SpecPaginate == Init /\ [][NextPaginate]_vars

\* C6: a full iteration over N items yields the N items once each, in
\* dataset order, with ceil(N/P) fetches when P does not divide N and
\* N/P + 1 fetches when it does, and ends on the first short page.
C6_PaginateAll ==
    pag_pc = "done" =>
        /\ pag_yielded = [i \in 1..pag_N |-> i - 1]
        /\ pag_fetches =
              IF pag_N % PAGINATION_PAGE_COUNT = 0
              THEN (pag_N \div PAGINATION_PAGE_COUNT) + 1
              ELSE (pag_N + PAGINATION_PAGE_COUNT - 1) \div PAGINATION_PAGE_COUNT
        /\ pag_start = (pag_fetches - 1) * PAGINATION_PAGE_COUNT
        /\ pag_page_items = pag_N - pag_start
        /\ pag_page_items < PAGINATION_PAGE_COUNT

\* two full pages and the extra round trip that returns the empty page
C6_Witness ==
    /\ pag_pc = "done"
    /\ pag_N = 2 * PAGINATION_PAGE_COUNT
    /\ pag_fetches = 3
    /\ Len(pag_yielded) = pag_N
    /\ pag_page_items = 0

CeilDiv(a, b) == (a + b - 1) \div b

\* C24: nothing is fetched before the first next(); a consumer that has
\* taken m >= 1 items has caused ceil(m/P) fetches; a page is fetched only by
\* the first next() or by the next() that follows the last item of a full
\* page.
C24_Lazy ==
    /\ [](/\ pag_pc = "created" => pag_fetches = 0
          /\ pag_pc = "suspended" =>
                /\ Len(pag_yielded) >= 1
                /\ pag_fetches = CeilDiv(Len(pag_yielded), PAGINATION_PAGE_COUNT))
    /\ [][pag_fetches' > pag_fetches =>
            /\ pag_fetches' = pag_fetches + 1
            /\ \/ pag_pc = "created"
               \/ /\ pag_pc = "suspended"
                  /\ pag_page = <<>>
                  /\ pag_page_items = PAGINATION_PAGE_COUNT]_vars

\* a consumer that stopped one item into the second page of three
C24_Witness ==
    /\ pag_pc = "suspended"
    /\ pag_N = 2 * PAGINATION_PAGE_COUNT + 1
    /\ Len(pag_yielded) = PAGINATION_PAGE_COUNT + 1
    /\ pag_fetches = 2
    /\ pag_log = <<<<0, PAGINATION_PAGE_COUNT>>,
                   <<PAGINATION_PAGE_COUNT, PAGINATION_PAGE_COUNT>>>>

----------------------------------------------------------------------------
(* Two generators: the consumer of one runs while the other is suspended.  *)

\* the frame of the running generator
Generator ==
    [pc |-> pag_pc, N |-> pag_N, start |-> pag_start, page |-> pag_page,
     page_items |-> pag_page_items, fetches |-> pag_fetches, yielded |-> pag_yielded,
     listing |-> pag_listing, sentinel_at |-> pag_sentinel_at, log |-> pag_log,
     raised |-> pag_raised]

\* Mutant: the cursor is kept on the controller, one for all generators
PaginateSwitch_SharedCursor ==
    /\ pag_parked' = Generator
    /\ pag_pc' = pag_parked.pc
    /\ pag_N' = pag_parked.N
    /\ pag_start' = pag_start
    /\ pag_page' = pag_parked.page
    /\ pag_page_items' = pag_parked.page_items
    /\ pag_fetches' = pag_parked.fetches
    /\ pag_yielded' = pag_parked.yielded
    /\ pag_listing' = pag_parked.listing
    /\ pag_sentinel_at' = pag_parked.sentinel_at
    /\ pag_log' = pag_parked.log
    /\ pag_raised' = pag_parked.raised

\* the consumer of the other generator takes its turn: each generator
\* object has its own frame, and start is a local of it
PaginateSwitch ==
    /\ pag_parked' = Generator
    /\ pag_pc' = pag_parked.pc
    /\ pag_N' = pag_parked.N
    /\ pag_start' = pag_parked.start
    /\ pag_page' = pag_parked.page
    /\ pag_page_items' = pag_parked.page_items
    /\ pag_fetches' = pag_parked.fetches
    /\ pag_yielded' = pag_parked.yielded
    /\ pag_listing' = pag_parked.listing
    /\ pag_sentinel_at' = pag_parked.sentinel_at
    /\ pag_log' = pag_parked.log
    /\ pag_raised' = pag_parked.raised

\* dataset sizes around the page size
ListingSizes == {0, 1, PAGINATION_PAGE_COUNT, PAGINATION_PAGE_COUNT + 1}

\* the page whose evaluation gives None: none, the first, the second
SentinelPages == {0, 1, 2}

NextGenerators ==
    /\ \/ \E listing \in Listings, N \in ListingSizes, sentinelAt \in SentinelPages :
             PaginateCallListing(listing, N, sentinelAt) /\ UNCHANGED pag_parked
       \/ PaginateNext
       \/ PaginateSwitch
    /\ UNCHANGED <<restVars, pageVars, handleVars, opVars, histVars, wflVars, eqVars,
                   djVars>>

SpecGenerators == Init /\ [][NextGenerators]_vars

\* the offsets of the first k fetches: 0, P, 2P, ...
ExpectedLog(k) ==
    [i \in 1..k |-> <<(i - 1) * PAGINATION_PAGE_COUNT, PAGINATION_PAGE_COUNT>>]

\* C23: the k-th fetch of an invocation has start = (k-1)*P and count = P,
\* for the running generator and for the suspended one alike, so a fresh
\* invocation starts at 0 and interleaved invocations keep their own
\* offsets.
C23_CursorPerInvocation ==
    /\ pag_log = ExpectedLog(pag_fetches)
    /\ pag_parked.log = ExpectedLog(pag_parked.fetches)
    /\ pag_fetches >= 1 => pag_start = (pag_fetches - 1) * PAGINATION_PAGE_COUNT
    /\ pag_fetches = 0 => pag_start = 0

\* one generator is on its second page, the other was created after it and
\* has fetched its first page at offset 0
C23_Witness ==
    /\ pag_pc = "suspended"
    /\ pag_log = <<<<0, PAGINATION_PAGE_COUNT>>>>
    /\ pag_parked.pc = "suspended"
    /\ pag_parked.start = PAGINATION_PAGE_COUNT
    /\ Len(pag_parked.log) = 2

\* the generator ran to its end: exhausted or left by an exception
Ended(g) == g.pc \in {"done", "raised"}

\* C25: two listings fed the same pages, a None page included, yield the
\* same number of items with the same number of fetches, and both end
\* without raising.
C25_ListingsAlike ==
    (/\ Ended(Generator)
     /\ Ended(pag_parked)
     /\ pag_N = pag_parked.N
     /\ pag_sentinel_at = pag_parked.sentinel_at) =>
        /\ Len(pag_yielded) = Len(pag_parked.yielded)
        /\ pag_fetches = pag_parked.fetches
        /\ pag_raised = None
        /\ pag_parked.raised = None

----------------------------------------------------------------------------
(* EventListener: a wrapper of the dict decoded from the browser's answer. *)
(* A dict is a function from the keys it holds to their values; a JSON     *)
(* null decodes to None.                                                   *)

FieldNames == {"event_type", "selector"}
FieldValues == {None, "click", "div"}

Dicts == UNION {[D -> FieldValues] : D \in SUBSET FieldNames}

PyBool(b) == IF b THEN PyTrue ELSE PyFalse

\* dict.get(key): None for a key that is not there
Get(d, key) == IF key \in DOMAIN d THEN d[key] ELSE None

\* EventListener.__len__
EvLen(d) == Cardinality(DOMAIN d)

\* EventListener.__eq__
Eq(self, other) ==
    IF EvLen(other) # EvLen(self) THEN FALSE
    ELSE \A key \in DOMAIN self : self[key] = Get(other, key)

\* EventListener(event_as_dict), twice
EventListenerNew(da, db) ==
    /\ eq_pc = "idle"
    /\ ev_a' = da
    /\ ev_b' = db
    /\ eq_pc' = "built"
    /\ UNCHANGED <<eq_aa, eq_ab, eq_ba>>

\* EventListener.__setitem__ on the first instance
SetItem(key, value) ==
    /\ eq_pc = "built"
    /\ ev_a' = [k \in DOMAIN ev_a \cup {key} |-> IF k = key THEN value ELSE ev_a[k]]
    /\ UNCHANGED <<ev_b, eq_pc, eq_aa, eq_ab, eq_ba>>

\* a == a, a == b, b == a
Compare ==
    /\ eq_pc = "built"
    /\ eq_aa' = PyBool(Eq(ev_a, ev_a))
    /\ eq_ab' = PyBool(Eq(ev_a, ev_b))
    /\ eq_ba' = PyBool(Eq(ev_b, ev_a))
    /\ eq_pc' = "compared"
    /\ UNCHANGED <<ev_a, ev_b>>

NextEq ==
    \/ \E da \in Dicts, db \in Dicts :
          EventListenerNew(da, db) /\ UNCHANGED <<restVars, pageVars, handleVars, opVars, histVars,
                                                  wflVars, pagVars, djVars>>
    \/ \E key \in FieldNames, value \in FieldValues :
          SetItem(key, value) /\ UNCHANGED <<restVars, pageVars, handleVars, opVars, histVars,
                                             wflVars, pagVars, djVars>>
    \/ Compare /\ UNCHANGED <<restVars, pageVars, handleVars, opVars, histVars,
                              wflVars, pagVars, djVars>>

SpecEq == Init /\ [][NextEq]_vars

\* C7: EventListener equality is reflexive and symmetric, False for records
\* with different numbers of fields, and True exactly for records with the
\* same field names and the same value per name (None values included).
C7_EqIsValueEquality ==
    eq_pc = "compared" =>
        /\ eq_aa = PyTrue
        /\ eq_ab = eq_ba
        /\ (EvLen(ev_a) # EvLen(ev_b) => eq_ab = PyFalse)
        /\ (eq_ab = PyTrue <=> ev_a = ev_b)

----------------------------------------------------------------------------
(* dispatch_js_event().  A string is a sequence of characters.             *)

\* longest event type and longest selector a caller passes
MaxEventTypeLen == 3
MaxSelectorLen == 2

DQuote == "\""
BSlash == "\\"

\* representatives of the class [a-zA-Z.] of EVENT_TYPE_RE
EventTypeClass == {"a", "Z", "."}

EventTypeAlphabet == {"a", ".", DQuote, ")"}
SelectorAlphabet == {"a", DQuote, BSlash}

Strings(alphabet, maxLen) == UNION {[1..n -> alphabet] : n \in 0..maxLen}

\* the length of the match of [a-zA-Z.]+ at the start of s
RECURSIVE MatchLen(_)
MatchLen(s) ==
    IF s = <<>> \/ Head(s) \notin EventTypeClass THEN 0
    ELSE 1 + MatchLen(Tail(s))

\* Mutant: the pattern has to match the whole string
IsValidEventType_FullMatch(event_type) ==
    MatchLen(event_type) > 0 /\ MatchLen(event_type) = Len(event_type)

\* _is_valid_event_type: bool(EVENT_TYPE_RE.match(event_type)); match()
\* anchors the pattern at the start of the string only
IsValidEventType(event_type) == MatchLen(event_type) > 0

\* _escape_js_string: text.replace('"', '\\"')
RECURSIVE EscapeJsString(_)
EscapeJsString(text) ==
    IF text = <<>> THEN <<>>
    ELSE IF Head(text) = DQuote
         THEN <<BSlash, DQuote>> \o EscapeJsString(Tail(text))
         ELSE <<Head(text)>> \o EscapeJsString(Tail(text))

\* cmd % args
DispatchExpression(selector, event_type) ==
    <<"window._DOMAnalyzer.dispatchCustomEvent(", DQuote>> \o selector
        \o <<DQuote, ",", " ", DQuote>> \o event_type \o <<DQuote, ")">>

\* Mutant: an explicit false is taken for success
DispatchOutcome_SwallowFalse(result) ==
    IF result = None THEN "EventTimeout" ELSE PyTrue

\* what dispatch_js_event does with the evaluation result
DispatchOutcome(result) ==
    IF result = None THEN "EventTimeout"
    ELSE IF result = PyFalse THEN "EventException"
    ELSE PyTrue

\* dispatch_js_event(selector, event_type); result is the value decoded by
\* _js_runtime_evaluate
DispatchJsEvent(selector, event_type, result) ==
    /\ dj_selector' = selector
    /\ dj_event_type' = event_type
    /\ dj_result' = IF IsValidEventType(event_type) THEN result ELSE None
    /\ IF ~IsValidEventType(event_type)
       THEN /\ dj_outcome' = "AssertionError"
            /\ dj_expression' = <<>>
            /\ sent' = <<>>
            /\ raised' = "AssertionError"
            /\ dj_pc' = "raised"
       ELSE LET send == SendResult(chrome_conn, "Runtime.evaluate")
                outcome == IF send.raised # None THEN send.raised
                           ELSE DispatchOutcome(result)
            IN  /\ dj_expression' = DispatchExpression(EscapeJsString(selector), event_type)
                /\ sent' = send.sent
                /\ dj_outcome' = outcome
                /\ raised' = IF outcome = PyTrue THEN None ELSE outcome
                /\ dj_pc' = IF outcome = PyTrue THEN "returned" ELSE "raised"
    /\ UNCHANGED <<teardown_attempts, teardown_calls, teardown_logged>>

\* one call per behaviour
NextDispatch ==
    /\ dj_pc = "idle"
    /\ \E selector \in Strings(SelectorAlphabet, MaxSelectorLen),
          event_type \in Strings(EventTypeAlphabet, MaxEventTypeLen),
          result \in {None, PyFalse, PyTrue} :
          /\ DispatchJsEvent(selector, event_type, result)
          /\ UNCHANGED <<restVars, pageVars, handleVars, histVars, wflVars, pagVars, eqVars>>

SpecDispatch == Init /\ [][NextDispatch]_vars

\* C8: dispatch_js_event with an empty event type, or with one that holds a
\* character outside [a-zA-Z.] at any position, fails before a
\* Runtime.evaluate command is sent.
C8_InvalidEventTypeSendsNothing ==
    (/\ dj_pc # "idle"
     /\ \/ dj_event_type = <<>>
        \/ \E i \in 1..Len(dj_event_type) : dj_event_type[i] \notin EventTypeClass)
    => (dj_pc = "raised" /\ dj_outcome = "AssertionError" /\ sent = <<>>)

----------------------------------------------------------------------------
(* __init__: construction may fail at one of its steps, which leaves the   *)
(* attributes of the later steps unassigned.                               *)

\* lines 82 to 85, and the handler registration inside connect_to_chrome
InitStepsOrder ==
    <<"start_proxy", "start_chrome_process", "connect_to_chrome",
      "set_event_handler", "set_chrome_settings">>

\* the steps that may raise
FailPoints == {"start_proxy", "start_chrome_process", "connect_to_chrome",
               "set_chrome_settings"}

IndexOf(step) == CHOOSE i \in 1..Len(InitStepsOrder) : InitStepsOrder[i] = step

\* Mutant: __init__ goes on with the remaining steps after a failure
InitStepsRun_Continues(failAt) ==
    InitStepsOrder

\* the steps __init__ enters when failAt raises (None: no step raises)
InitStepsRun(failAt) ==
    IF failAt = None THEN InitStepsOrder
    ELSE SubSeq(InitStepsOrder, 1, IndexOf(failAt))

\* self.x = self.step(): the attribute after __init__ ran steps and failed
\* at failAt
AttributeAfter(step, failAt) ==
    IF step \in Range(InitStepsRun(failAt)) /\ step # failAt THEN Live ELSE Unset

\* the exception that leaves __init__
InitRaises(failAt) ==
    IF failAt = None THEN None
    ELSE IF failAt = "connect_to_chrome" THEN "InstrumentedChromeException"
    ELSE "Exception"

\* the object when __init__ reaches line 82
InitNew ==
    /\ page_state = PAGE_STATE_NONE
    /\ frame_stopped_loading_event = None
    /\ frame_scheduled_navigation = None
    /\ network_almost_idle_event = None
    /\ execution_context_created = None
    /\ proxy = Unset
    /\ chrome_process = Unset
    /\ chrome_conn = Unset
    /\ sent = <<>>
    /\ raised = None
    /\ teardown_attempts = <<>>
    /\ teardown_calls = <<>>
    /\ teardown_logged = {}
    /\ last_op = "new"
    /\ last_msg = Msg(Absent, NoParams)
    /\ last_writer = "init"
    /\ prev_page_state = PAGE_STATE_NONE
    /\ nav_armed = FALSE
    /\ delivered = <<>>
    /\ reterminated = FALSE
    /\ prev_flags = <<None, None, None, None>>
    /\ stop_in_force = FALSE
    /\ init_pc = "new"
    /\ init_steps = <<>>

\* __init__ from line 82 on
Construct(failAt) ==
    /\ init_pc = "new"
    /\ init_steps' = InitStepsRun(failAt)
    /\ init_pc' = IF failAt = None THEN "constructed" ELSE "failed"
    /\ proxy' = AttributeAfter("start_proxy", failAt)
    /\ chrome_process' = AttributeAfter("start_chrome_process", failAt)
    /\ chrome_conn' = AttributeAfter("connect_to_chrome", failAt)
    /\ raised' = InitRaises(failAt)
    /\ last_op' = "init"
    /\ proxy_debugging_id' =
          IF AttributeAfter("start_proxy", failAt) = Live THEN debugging_id ELSE None
    /\ conn_debugging_id' =
          IF AttributeAfter("connect_to_chrome", failAt) = Live THEN debugging_id ELSE None
    /\ UNCHANGED <<debugging_id, process_debugging_id, logVars, fieldVars>>
    /\ UNCHANGED <<pageVars, sent, teardown_attempts, teardown_calls, teardown_logged,
                   last_msg, last_writer, prev_page_state, nav_armed, delivered,
                   reterminated, prev_flags, stop_in_force>>

NextConstruct ==
    \/ \E failAt \in FailPoints \cup {None} :
          Construct(failAt)
             /\ UNCHANGED <<wflVars, pagVars, eqVars, djVars, jreVars, nsVars,
                            ns_seen_loading, cmdVars>>
    \/ \E fails \in SUBSET TeardownSteps :
          /\ init_pc # "new"
          /\ Terminate(fails)
          /\ UNCHANGED <<wflVars, pagVars, eqVars, djVars, restVars>>
    \/ \E m \in LoadMessages :
          /\ "set_event_handler" \in Range(init_steps)
          /\ PageStateHandler(m)
          /\ UNCHANGED <<wflVars, pagVars, eqVars, djVars, restVars>>

\* the object as __new__ leaves it, no caller around it yet
InitConstruct == InitNew /\ InitCallers

SpecConstruct == InitConstruct /\ [][NextConstruct]_vars

\* C11: terminate() on a controller whose __init__ failed at any of its
\* steps raises nothing and leaves the three handles None.
C11_TerminateAfterFailedInit ==
    (init_pc = "failed" /\ last_op = "terminate") =>
        /\ raised = None
        /\ proxy = None
        /\ chrome_conn = None
        /\ chrome_process = None

----------------------------------------------------------------------------
(* set_debugging_id() *)

\* the ids a caller supplies
DebuggingIds == {"scan-1", "scan-2"}

\* handle.set_debugging_id(d): the exception it raises
SetIdRaises(handle) == IF handle \in {Unset, None} THEN "AttributeError" ELSE None

\* set_debugging_id: the assignment, then the connection, then the proxy
SetDebuggingId(d) ==
    /\ init_pc # "new"
    /\ debugging_id' = d
    /\ conn_debugging_id' = IF SetIdRaises(chrome_conn) = None THEN d ELSE conn_debugging_id
    /\ proxy_debugging_id' =
          IF SetIdRaises(chrome_conn) = None /\ SetIdRaises(proxy) = None
          THEN d ELSE proxy_debugging_id
    /\ raised' = IF SetIdRaises(chrome_conn) # None THEN SetIdRaises(chrome_conn)
                 ELSE SetIdRaises(proxy)
    /\ sent' = <<>>
    /\ last_op' = "set_debugging_id"
    /\ UNCHANGED <<process_debugging_id, init_pc, init_steps, logVars, fieldVars, pageVars,
                   handleVars,
                   teardown_attempts, teardown_calls, teardown_logged, last_msg,
                   last_writer, prev_page_state, nav_armed, delivered, reterminated,
                   prev_flags, stop_in_force>>

NextDebuggingId ==
    \/ \E failAt \in FailPoints \cup {None} :
          Construct(failAt)
             /\ UNCHANGED <<wflVars, pagVars, eqVars, djVars, jreVars, nsVars,
                            ns_seen_loading, cmdVars>>
    \/ \E d \in DebuggingIds :
          SetDebuggingId(d)
             /\ UNCHANGED <<wflVars, pagVars, eqVars, djVars, jreVars, nsVars,
                            ns_seen_loading, cmdVars>>
    \/ \E fails \in {{}, TeardownSteps} :
          /\ init_pc # "new"
          /\ Terminate(fails)
          /\ UNCHANGED <<wflVars, pagVars, eqVars, djVars, restVars>>
    \/ \E m \in LoadMessages :
          /\ "set_event_handler" \in Range(init_steps)
          /\ PageStateHandler(m)
          /\ UNCHANGED <<wflVars, pagVars, eqVars, djVars, restVars>>

SpecDebuggingId == InitConstruct /\ [][NextDebuggingId]_vars

\* C21: after set_debugging_id(d) on a constructed controller the proxy, the
\* browser process and the connection all hold d.
C21_IdHeldByAll ==
    (init_pc = "constructed" /\ last_op = "set_debugging_id" /\ raised = None) =>
        /\ proxy_debugging_id = debugging_id
        /\ conn_debugging_id = debugging_id
        /\ process_debugging_id = debugging_id

----------------------------------------------------------------------------
(* terminate() step by step around "with AllLoggingDisabled():", and the   *)
(* process-wide logging.disable level.                                     *)

LoggingLevels == {LOGGING_NOTSET, LOGGING_INFO, LOGGING_CRITICAL}

\* logging.disable(level) by the application, between two calls
LoggingDisable(level) ==
    /\ trm_pc = "idle"
    /\ logging_disable' = level
    /\ trm_level_before' = level
    /\ UNCHANGED <<trm_pc, trm_fails, previous_level, trm_close_raised>>

\* terminate() up to the with statement: the debug line and the proxy's try
\* block
TerminateBegin(fails) ==
    /\ trm_pc = "idle"
    /\ trm_fails' = fails
    /\ trm_level_before' = logging_disable
    /\ trm_close_raised' = FALSE
    /\ trm_pc' = IF Str(proxy, chrome_process) = None THEN "with" ELSE "rest"
    /\ UNCHANGED <<logging_disable, previous_level>>

\* AllLoggingDisabled(): __init__
AllLoggingDisabledInit ==
    /\ trm_pc = "with"
    /\ previous_level' = LOGGING_INFO
    /\ trm_pc' = "enter"
    /\ UNCHANGED <<logging_disable, trm_fails, trm_level_before, trm_close_raised>>

\* __enter__
AllLoggingDisabledEnter ==
    /\ trm_pc = "enter"
    /\ previous_level' = logging_disable
    /\ logging_disable' = LOGGING_CRITICAL
    /\ trm_pc' = "close"
    /\ UNCHANGED <<trm_fails, trm_level_before, trm_close_raised>>

\* the body: self.chrome_conn.close()
CloseInBlock ==
    /\ trm_pc = "close"
    /\ trm_close_raised' = (Call(chrome_conn, ConnClose, trm_fails) # None)
    /\ trm_pc' = "exit"
    /\ UNCHANGED <<logging_disable, trm_fails, previous_level, trm_level_before>>

\* Mutant: the level is put back only when the body ended normally
AllLoggingDisabledExit_OnSuccess ==
    /\ trm_pc = "exit"
    /\ logging_disable' = IF trm_close_raised THEN logging_disable ELSE previous_level
    /\ trm_pc' = "rest"
    /\ UNCHANGED <<trm_fails, previous_level, trm_level_before, trm_close_raised>>

\* __exit__, on both ways out of the body
AllLoggingDisabledExit ==
    /\ trm_pc = "exit"
    /\ logging_disable' = previous_level
    /\ trm_pc' = "rest"
    /\ UNCHANGED <<trm_fails, previous_level, trm_level_before, trm_close_raised>>

\* the except clause of the connection, the process's try block and the
\* four assignments: terminate() has run as a whole
TerminateFinish ==
    /\ trm_pc = "rest"
    /\ Terminate(trm_fails)
    /\ trm_pc' = "idle"
    /\ UNCHANGED <<logging_disable, trm_fails, previous_level, trm_level_before,
                   trm_close_raised>>

NextLogging ==
    \/ /\ \/ \E level \in LoggingLevels : LoggingDisable(level)
          \/ \E fails \in SUBSET TeardownSteps : TerminateBegin(fails)
          \/ AllLoggingDisabledInit
          \/ AllLoggingDisabledEnter
          \/ CloseInBlock
          \/ AllLoggingDisabledExit
       /\ UNCHANGED <<pageVars, handleVars, opVars, histVars, wflVars, pagVars, eqVars,
                      djVars, init_pc, init_steps, idVars, fieldVars, jreVars, nsVars,
                      ns_seen_loading, cmdVars>>
    \/ /\ TerminateFinish
       /\ UNCHANGED <<wflVars, pagVars, eqVars, djVars, init_pc, init_steps, idVars,
                      fieldVars, jreVars, nsVars, ns_seen_loading, cmdVars>>

SpecLogging == Init /\ [][NextLogging]_vars

\* C22: the logging disable level after terminate() is the level before it,
\* whether close() returned or raised, and it differs from that level only
\* between __enter__ and __exit__, where it is CRITICAL.
C22_LoggingRestored ==
    /\ trm_pc \notin {"close", "exit"} => logging_disable = trm_level_before
    /\ trm_pc \in {"close", "exit"} => logging_disable = LOGGING_CRITICAL

\* terminate() returned after close() raised inside the block, with the INFO
\* level that was disabled before the call back in force
C22_Witness ==
    /\ trm_pc = "idle"
    /\ last_op = "terminate"
    /\ trm_close_raised
    /\ ConnClose \in teardown_logged
    /\ previous_level = LOGGING_INFO
    /\ logging_disable = LOGGING_INFO

----------------------------------------------------------------------------
(* _js_runtime_evaluate(): the answer of Runtime.evaluate is None or a     *)
(* dict.  The model keeps how deep the dict goes (shape), whether          *)
(* result['result'] holds exceptionDetails, and the value.                 *)

JsValues == {None, PyTrue, PyFalse, "1", "text"}

Response(shape, exceptionDetails, value) ==
    [shape |-> shape, exceptionDetails |-> exceptionDetails, value |-> value]

Responses ==
    {Response("null", FALSE, None), Response("no result", FALSE, None)}
    \cup {Response(shape, e, None) : shape \in {"no inner result", "no value"},
                                     e \in BOOLEAN}
    \cup {Response("value", e, v) : e \in BOOLEAN, v \in JsValues}

\* the four tests of _js_runtime_evaluate and its return
JsRuntimeEvaluate(response) ==
    IF response.shape = "null" THEN None
    ELSE IF response.shape = "no result" THEN None
    ELSE IF response.shape = "no inner result" THEN None
    ELSE IF response.shape = "no value" THEN None
    ELSE response.value

VariableNames == {<<"window.errors">>, <<"document.title">>}

\* get_js_variable_value(variable_name), the browser answering response
GetJsVariableValue(variable_name, response) ==
    /\ jre_pc' = "returned"
    /\ jre_expression' = variable_name
    /\ jre_response' = response
    /\ jre_value' = JsRuntimeEvaluate(response)
    /\ sent' = SendResult(chrome_conn, "Runtime.evaluate").sent
    /\ raised' = SendResult(chrome_conn, "Runtime.evaluate").raised
    /\ UNCHANGED <<teardown_attempts, teardown_calls, teardown_logged>>

\* dispatch_js_event(selector, event_type), the browser answering response
DispatchJsEventResponse(selector, event_type, response) ==
    /\ DispatchJsEvent(selector, event_type, JsRuntimeEvaluate(response))
    /\ IF IsValidEventType(event_type)
       THEN /\ jre_pc' = "returned"
            /\ jre_expression' = DispatchExpression(EscapeJsString(selector), event_type)
            /\ jre_response' = response
            /\ jre_value' = JsRuntimeEvaluate(response)
       ELSE UNCHANGED jreVars

\* one call per behaviour
NextEvaluate ==
    \/ /\ jre_pc = "idle"
       /\ \E variable_name \in VariableNames, response \in Responses :
          /\ GetJsVariableValue(variable_name, response)
          /\ UNCHANGED <<pageVars, handleVars, histVars, wflVars, pagVars, eqVars, djVars,
                         ctorVars, nsVars, ns_seen_loading, cmdVars>>
    \/ /\ jre_pc = "idle"
       /\ dj_pc = "idle"
       /\ \E selector \in Strings(SelectorAlphabet, MaxSelectorLen),
             event_type \in Strings(EventTypeAlphabet, MaxEventTypeLen),
             response \in Responses :
          /\ DispatchJsEventResponse(selector, event_type, response)
          /\ UNCHANGED <<pageVars, handleVars, histVars, wflVars, pagVars, eqVars,
                         ctorVars, nsVars, ns_seen_loading, cmdVars>>

SpecEvaluate == Init /\ [][NextEvaluate]_vars

\* C12: _js_runtime_evaluate raises nothing; it returns the value of a
\* response that carries one and reports no JavaScript exception, and None
\* for a null response, a response without result, without inner result or
\* without value, and for a response with exceptionDetails, value or not.
C12_EvaluateCoalesces ==
    jre_pc = "returned" =>
        /\ raised \in {None, "EventTimeout", "EventException"}
        /\ jre_value = IF jre_response.shape = "value" /\ ~jre_response.exceptionDetails
                       THEN jre_response.value
                       ELSE None

----------------------------------------------------------------------------
(* Properties of dispatch_js_event() *)

\* C13: with a valid event type the evaluation result decides the outcome:
\* None raises EventTimeout, False raises EventException, True returns
\* True; True is never returned for None or False.
C13_DispatchOutcomes ==
    (dj_pc # "idle" /\ IsValidEventType(dj_event_type)) =>
        /\ sent = <<"Runtime.evaluate">>
        /\ (dj_result = None => (dj_pc = "raised" /\ dj_outcome = "EventTimeout"))
        /\ (dj_result = PyFalse => (dj_pc = "raised" /\ dj_outcome = "EventException"))
        /\ (dj_result = PyTrue => (dj_pc = "returned" /\ dj_outcome = PyTrue))
        /\ (dj_pc = "returned" => dj_result \notin {None, PyFalse})
        /\ (dj_pc = "raised" => raised = dj_outcome)

C13_Witness ==
    /\ dj_pc = "raised"
    /\ dj_event_type = <<"a", ".", "a">>
    /\ dj_result = PyFalse
    /\ dj_outcome = "EventException"
    /\ raised = "EventException"

\* the text between the first pair of double quotes of the expression
SelectorLiteral ==
    SubSeq(dj_expression, 3, Len(dj_expression) - Len(dj_event_type) - 6)

\* the number of backslashes right before position i of s
RECURSIVE BackslashesBefore(_, _)
BackslashesBefore(s, i) ==
    IF i = 1 THEN 0
    ELSE IF s[i - 1] # BSlash THEN 0
    ELSE 1 + BackslashesBefore(s, i - 1)

\* C16: in the generated expression no double quote of the escaped
\* selector ends the string literal: each one follows an odd number of
\* backslashes.
C16_SelectorStaysInLiteral ==
    (dj_pc # "idle" /\ IsValidEventType(dj_event_type)) =>
        \A i \in 1..Len(SelectorLiteral) :
            SelectorLiteral[i] = DQuote => BackslashesBefore(SelectorLiteral, i) % 2 = 1

----------------------------------------------------------------------------
(* navigation_started(), and a caller thread that polls with either wait   *)
(* while the event thread and other callers go on.                         *)

\* Mutant: without a timeout the loop has no deadline
EffectiveWillChangeTimeout_NoDefault(T) ==
    IF T = 0 THEN ClockCap ELSE T

\* timeout = timeout or self.PAGE_WILL_CHANGE_TIMEOUT, in polls: 0 and a
\* missing timeout are both falsy
EffectiveWillChangeTimeout(T) ==
    IF T = 0 THEN PAGE_WILL_CHANGE_TIMEOUT * POLLS_PER_SECOND ELSE T

\* the call and the two assignments before the loop
NavigationStartedCall(T) ==
    /\ ns_pc \in {"idle", "returned"}
    /\ ns_T' = T
    /\ ns_timeout' = EffectiveWillChangeTimeout(T)
    /\ ns_elapsed' = 0
    /\ ns_result' = None
    /\ ns_pc' = "poll"

\* one round of the loop up to the sleep
NavigationStartedPoll ==
    /\ ns_pc = "poll"
    /\ IF page_state = PAGE_STATE_LOADING
       THEN /\ ns_result' = PyTrue
            /\ ns_pc' = "returned"
       ELSE IF TimedOut(ns_elapsed, ns_timeout)
       THEN /\ ns_result' = PyFalse
            /\ ns_pc' = "returned"
       ELSE /\ ns_pc' = "sleep"
            /\ UNCHANGED ns_result
    /\ UNCHANGED <<ns_T, ns_timeout, ns_elapsed>>

\* time.sleep(0.1)
NavigationStartedSleep ==
    /\ ns_pc = "sleep"
    /\ ns_elapsed < ClockCap
    /\ ns_elapsed' = ns_elapsed + 1
    /\ ns_pc' = "poll"
    /\ UNCHANGED <<ns_T, ns_timeout, ns_result>>

WaitPending == wfl_pc \in {"poll", "sleep"}
NavigationStartedPending == ns_pc \in {"poll", "sleep"}

\* history: the page state was LOADING at some moment of the pending
\* navigation_started() call
SeesLoading ==
    ns_seen_loading' =
        (ns_seen_loading \/ (NavigationStartedPending /\ page_state' = PAGE_STATE_LOADING))

\* the local variables of a wait that returned are gone
ForgetWait ==
    /\ wfl_pc' = "idle"
    /\ wfl_T' = 0
    /\ wfl_timeout' = 0
    /\ wfl_elapsed' = 0
    /\ wfl_result' = None
    /\ wfl_loaded_at_poll' = FALSE
    /\ wfl_after_stop' = FALSE

ForgetNavigationStarted ==
    /\ ns_pc' = "idle"
    /\ ns_T' = 0
    /\ ns_timeout' = 0
    /\ ns_elapsed' = 0
    /\ ns_result' = None

\* a step of the polling thread: one wait at a time, wait_for_load with a
\* timeout of WaitTimeouts, navigation_started with one of StartedTimeouts
PollStep(WaitTimeouts, StartedTimeouts) ==
    \/ /\ ~NavigationStartedPending
       /\ \E T \in WaitTimeouts : WaitForLoadCall(T)
       /\ ForgetNavigationStarted
       /\ ns_seen_loading' = FALSE
    \/ WaitForLoadPoll /\ UNCHANGED <<nsVars, ns_seen_loading>>
    \/ WaitForLoadSleep /\ UNCHANGED <<nsVars, ns_seen_loading>>
    \/ /\ ~WaitPending
       /\ \E T \in StartedTimeouts : NavigationStartedCall(T)
       /\ ns_seen_loading' = FALSE
       /\ ForgetWait
    \/ /\ NavigationStartedPoll
       /\ ns_seen_loading' = (ns_seen_loading \/ page_state = PAGE_STATE_LOADING)
       /\ UNCHANGED wflVars
    \/ NavigationStartedSleep /\ UNCHANGED <<wflVars, ns_seen_loading>>

\* a step of the event thread or of another caller
PageStep ==
    \/ \E m \in LoadMessages : PageStateHandler(m)
    \/ LoadUrl
    \/ Stop
    \/ Terminate({})

\* what a step of the polling thread leaves alone
PollFrame ==
    UNCHANGED <<pageVars, handleVars, opVars, histVars, pagVars, eqVars, djVars,
                ctorVars, jreVars, cmdVars>>

\* wait_for_load(0) and its default timeout are the subject of SpecWait
NextPoll ==
    \/ PollStep(1..MaxTimeout, 0..MaxTimeout) /\ PollFrame
    \/ PageStep /\ SeesLoading
                /\ UNCHANGED <<wflVars, pagVars, eqVars, djVars, ctorVars, jreVars,
                               nsVars, cmdVars>>

SpecPoll == Init /\ [][NextPoll]_vars

\* the same threads with both default timeouts and no history kept
PageStepCode ==
    \/ \E m \in LoadMessages : PageStateHandlerCode(m)
    \/ LoadUrlCode
    \/ StopCode
    \/ TerminateCode({})

NextPollAll ==
    \/ PollStep(0..MaxTimeout, 0..MaxTimeout) /\ PollFrame
    \/ PageStepCode /\ UNCHANGED <<histVars, wflVars, pagVars, eqVars, djVars, ctorVars,
                                   jreVars, nsVars, ns_seen_loading, cmdVars>>

\* the clock keeps advancing and the polling thread keeps running
SpecPollFair ==
    /\ Init /\ [][NextPollAll]_vars
    /\ WF_vars(WaitForLoadPoll /\ UNCHANGED <<nsVars, ns_seen_loading>> /\ PollFrame)
    /\ WF_vars(WaitForLoadSleep /\ UNCHANGED <<nsVars, ns_seen_loading>> /\ PollFrame)
    /\ WF_vars(NavigationStartedPoll /\ UNCHANGED wflVars /\ PollFrame
                   /\ ns_seen_loading' = (ns_seen_loading \/ page_state = PAGE_STATE_LOADING))
    /\ WF_vars(NavigationStartedSleep /\ UNCHANGED <<wflVars, ns_seen_loading>> /\ PollFrame)

----------------------------------------------------------------------------
(* Who writes the page state: the event thread, every command that touches *)
(* it, both waits and a query, side by side.                               *)

\* the answers of the browser to the query
QueryResponses == {Response("null", FALSE, None), Response("value", FALSE, "text")}

\* a query from a caller thread
QueryStep ==
    \E response \in QueryResponses : GetJsVariableValue(<<"document.title">>, response)

CommandStep ==
    \/ LoadUrl
    \/ NavigateToHistoryIndex
    \/ Stop
    \/ Terminate({})

NextWriters ==
    \/ PollStep(1..MaxTimeout, 1..MaxTimeout) /\ PollFrame
    \/ /\ \E m \in LoadMessages : PageStateHandler(m)
       /\ UNCHANGED <<wflVars, pagVars, eqVars, djVars, ctorVars, jreVars, nsVars,
                      ns_seen_loading, cmdVars>>
    \/ CommandStep /\ UNCHANGED <<wflVars, pagVars, eqVars, djVars, ctorVars, jreVars,
                                  nsVars, ns_seen_loading, cmdVars>>
    \/ QueryStep /\ UNCHANGED <<pageVars, handleVars, histVars, wflVars, pagVars, eqVars,
                                djVars, ctorVars, nsVars, ns_seen_loading, cmdVars>>

SpecWriters == Init /\ [][NextWriters]_vars

\* a step of a wait or of a query
CallerStep == wflVars' # wflVars \/ nsVars' # nsVars \/ jreVars' # jreVars

\* C17 as stated: the page state and its flags are written only by the event
\* handler; no command, wait or query changes them.
C17_OnlyEventsWrite ==
    [][pageVars' # pageVars => (last_op' = "event" /\ ~CallerStep)]_vars

\* C17: the flags are written only by the event handler.  The page state is
\* written by the event handler and by four commands: load_url /
\* load_about_blank and navigate_to_history_index write LOADING, stop writes
\* LOADED, terminate writes NONE.  The waits and the queries write neither.
C17_WritersOfPageState ==
    [][/\ Flags' # Flags => last_op' = "event"
       /\ page_state' # page_state =>
             \/ last_op' = "event"
             \/ /\ last_op' \in {"load_url", "navigate_to_history_index"}
                /\ page_state' = PAGE_STATE_LOADING
             \/ last_op' = "stop" /\ page_state' = PAGE_STATE_LOADED
             \/ last_op' = "terminate" /\ page_state' = PAGE_STATE_NONE
       /\ CallerStep => pageVars' = pageVars]_vars

\* stop() has just moved a loading page to LOADED, flags untouched, after a
\* query and a navigation_started call have run
C17_Witness ==
    /\ last_op = "stop"
    /\ prev_page_state = PAGE_STATE_LOADING
    /\ page_state = PAGE_STATE_LOADED
    /\ Flags = prev_flags
    /\ ~AllEventsReceived(PageRec)
    /\ jre_pc = "returned"
    /\ ns_pc = "returned"

\* C20: navigation_started returns True if and only if the page state was
\* LOADING at some moment between the call and its return.
C20_TrueIffNavigated ==
    ns_pc = "returned" => (ns_result = PyTrue <=> ns_seen_loading)

\* C19: while the clock advances, every wait_for_load and navigation_started
\* call, whatever its timeout and whatever events and commands run beside
\* it, eventually returns True or False.
C19_WaitsReturn ==
    /\ WaitPending ~> (wfl_pc = "returned" /\ wfl_result \in {PyTrue, PyFalse})
    /\ NavigationStartedPending ~> (ns_pc = "returned" /\ ns_result \in {PyTrue, PyFalse})

\* a wait with the default timeout gave up on a navigation that delivered
\* two of its three sub-events
C19_Witness ==
    /\ wfl_pc = "returned"
    /\ wfl_T = 0
    /\ wfl_result = PyFalse
    /\ wfl_elapsed > PAGE_LOAD_TIMEOUT * POLLS_PER_SECOND
    /\ page_state = PAGE_STATE_LOADING
    /\ frame_stopped_loading_event = PyTrue
    /\ network_almost_idle_event = PyTrue
    /\ execution_context_created = PyFalse

----------------------------------------------------------------------------
(* The commands statement by statement: the event thread and a waiting     *)
(* caller run between the two statements of load_url,                      *)
(* navigate_to_history_index and stop.                                     *)

NavigateCommands == {"load_url", "load_about_blank", "navigate_to_history_index"}
StepCommands == NavigateCommands \cup {"stop"}

\* load_about_blank is load_url('about:blank')
OpName(c) == IF c = "load_about_blank" THEN "load_url" ELSE c

\* the devtools command of each
ProtocolCommand(c) ==
    IF c \in {"load_url", "load_about_blank"} THEN "Page.navigate"
    ELSE IF c = "navigate_to_history_index" THEN "Page.navigateToHistoryEntry"
    ELSE "Page.stopLoading"

\* Mutant: stop() declares the page loaded only when the sub-events say so
WrittenState_StopNeedsFlags(c, st) ==
    IF c = "stop"
    THEN IF AllEventsReceived(st) THEN PAGE_STATE_LOADED ELSE st.page_state
    ELSE PAGE_STATE_LOADING

\* the value the first statement assigns to self._page_state
WrittenState(c, st) ==
    IF c = "stop" THEN PAGE_STATE_LOADED ELSE PAGE_STATE_LOADING

\* Mutant: the command goes out before the state is written
Statements_SendFirst(c) == <<"send", "write">>

\* the two statements of each command, in order
Statements(c) == <<"write", "send">>

NextStatement == Statements(cmd)[Len(cmd_done) + 1]

\* a caller enters the command
CommandCall(c) ==
    /\ cmd = None
    /\ cmd' = c
    /\ cmd_done' = <<>>
    /\ UNCHANGED <<pageVars, handleVars, opVars, histVars>>

\* self._page_state = ...
CommandWrite ==
    /\ cmd # None
    /\ Len(cmd_done) < Len(Statements(cmd))
    /\ NextStatement = "write"
    /\ page_state' = WrittenState(cmd, PageRec)
    /\ CommandHistory(OpName(cmd))
    /\ cmd_done' = Append(cmd_done, "write")
    /\ UNCHANGED <<frame_stopped_loading_event, frame_scheduled_navigation,
                   network_almost_idle_event, execution_context_created,
                   handleVars, opVars, reterminated, cmd>>

\* self.chrome_conn.Page. ...
CommandSend ==
    /\ cmd # None
    /\ Len(cmd_done) < Len(Statements(cmd))
    /\ NextStatement = "send"
    /\ sent' = SendResult(chrome_conn, ProtocolCommand(cmd)).sent
    /\ raised' = SendResult(chrome_conn, ProtocolCommand(cmd)).raised
    /\ cmd_done' = Append(cmd_done, "send")
    /\ UNCHANGED <<pageVars, handleVars, teardown_attempts, teardown_calls,
                   teardown_logged, histVars, cmd>>

\* the command returns to its caller
CommandReturn ==
    /\ cmd # None
    /\ Len(cmd_done) = Len(Statements(cmd))
    /\ cmd' = None
    /\ cmd_done' = <<>>
    /\ UNCHANGED <<pageVars, handleVars, opVars, histVars>>

NextSteps ==
    \/ /\ \/ \E c \in StepCommands : CommandCall(c)
          \/ CommandWrite
          \/ CommandSend
          \/ CommandReturn
       /\ UNCHANGED <<wflVars, pagVars, eqVars, djVars, ctorVars, jreVars, nsVars,
                      ns_seen_loading>>
    \/ /\ \/ \E m \in LoadMessages : PageStateHandler(m)
          \/ Terminate({})
       /\ UNCHANGED <<wflVars, pagVars, eqVars, djVars, restVars>>
    \/ /\ \/ \E T \in 1..MaxTimeout : WaitForLoadCall(T)
          \/ WaitForLoadPoll
          \/ WaitForLoadSleep
       /\ UNCHANGED <<pageVars, handleVars, opVars, histVars, pagVars, eqVars, djVars,
                      restVars>>

SpecSteps == Init /\ [][NextSteps]_vars

\* C14: load_url, load_about_blank and navigate_to_history_index write
\* LOADING, from every prior state, before they send their navigate command,
\* and have nothing else to do before they return.
C14_LoadingBeforeNavigate ==
    cmd \in NavigateCommands =>
        /\ "send" \in Range(cmd_done) => cmd_done[1] = "write"
        /\ (cmd_done # <<>> /\ cmd_done[1] = "write" /\ last_op = OpName(cmd))
              => page_state = PAGE_STATE_LOADING

\* a loaded page, navigate_to_history_index: LOADING is written, the command
\* is sent, no event was handled meanwhile
C14_Witness ==
    /\ cmd = "navigate_to_history_index"
    /\ cmd_done = <<"write", "send">>
    /\ last_op = "navigate_to_history_index"
    /\ prev_page_state = PAGE_STATE_LOADED
    /\ page_state = PAGE_STATE_LOADING
    /\ sent = <<"Page.navigateToHistoryEntry">>
    /\ raised = None

\* C18: stop() writes LOADED, whatever the state and the flags were, before
\* it sends Page.stopLoading; a wait_for_load poll that runs after that
\* write, and before a navigation-scheduled event, a navigate command or
\* terminate(), returns True.
C18_StopAbandonsWait ==
    /\ cmd = "stop" =>
          /\ "send" \in Range(cmd_done) => cmd_done[1] = "write"
          /\ (cmd_done # <<>> /\ cmd_done[1] = "write" /\ last_op = "stop")
                => page_state = PAGE_STATE_LOADED
    /\ wfl_after_stop => (wfl_pc = "returned" /\ wfl_result = PyTrue)

\* a wait that was sleeping on a page without its three sub-events returned
\* True after stop() wrote the state and before Page.stopLoading went out
C18_Witness ==
    /\ cmd = "stop"
    /\ cmd_done = <<"write">>
    /\ prev_page_state = PAGE_STATE_LOADING
    /\ ~AllEventsReceived(PageRec)
    /\ wfl_pc = "returned"
    /\ wfl_elapsed > 0
    /\ wfl_after_stop
    /\ wfl_result = PyTrue

----------------------------------------------------------------------------
(* Messages the handlers have no use for *)

ConsumedMethods == {FrameScheduledNavigation, FrameStoppedLoading, LifecycleEvent,
                    ExecutionContextCreated}

\* no method name; a lifecycle event without params, without a name or with
\* another name; a method that is none of the four consumed ones
Unrecognized(m) ==
    \/ m.method = Absent
    \/ m.method = LifecycleEvent /\ m.params # NetworkAlmostIdle
    \/ m.method \notin ConsumedMethods

\* C15: handling a malformed or unrecognized message leaves the page state
\* and the four flags as they were, in every reachable state.
C15_UnrecognizedIgnored ==
    (last_op = "event" /\ Unrecognized(last_msg))
        => (page_state = prev_page_state /\ Flags = prev_flags)

----------------------------------------------------------------------------
(* _page_state_handler one field access at a time. The connection calls the
   handler on its own thread, one message after the other, while load_url,
   navigate_to_history_index, stop and the polls of wait_for_load run on the
   caller's thread between any two of its field accesses. *)

\* the messages of a page load and one the handler has no branch for
FieldMessages == LoadMessages \cup {Msg("Page.frameNavigated", NoParams)}

\* Mutant: the join reads two of the three flags
JoinFields_TwoOnly ==
    <<"network_almost_idle_event", "frame_stopped_loading_event">>

\* the operands of the last if of _load_url_finished_handler, in the order
\* the "and" evaluates them
JoinFields ==
    <<"network_almost_idle_event", "frame_stopped_loading_event",
      "execution_context_created">>

\* the value of a flag read by name
FieldValue(name) ==
    CASE name = "network_almost_idle_event" -> network_almost_idle_event
      [] name = "frame_stopped_loading_event" -> frame_stopped_loading_event
      [] name = "execution_context_created" -> execution_context_created

\* where _page_state_handler makes its first field access for a message:
\* both handlers return at once without a method, _navigator_started_handler
\* writes for the navigation event only, _load_url_finished_handler writes a
\* flag for a sub-event, returns early or goes straight to the join
FirstAccess(m) ==
    IF m.method = Absent THEN "idle"
    ELSE IF m.method = FrameScheduledNavigation THEN "nav_scheduled"
    ELSE IF SubEventOf(m) # Absent THEN "flag_scheduled"
    ELSE IF ReturnsEarly(m) THEN "idle"
    ELSE "join"

\* what the caller's thread and the waits leave alone while the event
\* thread makes one access
HandlerFrame ==
    UNCHANGED <<handleVars, opVars, histVars, wflVars, pagVars, eqVars, djVars, init_pc,
                init_steps, idVars, logVars, jreVars, nsVars, ns_seen_loading, cmdVars>>

\* the connection hands a message to _page_state_handler
HandlerDispatch(m) ==
    /\ h_pc = "idle"
    /\ h_pc' = FirstAccess(m)
    /\ h_msg' = IF FirstAccess(m) = "idle" THEN Msg(Absent, NoParams) ELSE m
    /\ h_i' = 1
    /\ f_since' = IF SubEventOf(m) # Absent THEN f_since \cup {SubEventOf(m)} ELSE f_since
    /\ UNCHANGED <<pageVars, f_epoch, f_wait_ok>>
    /\ HandlerFrame

\* the five assignments of _navigator_started_handler in source order; the
\* last one is the page state, and _load_url_finished_handler runs after it
NavigatorStartedStep ==
    /\ h_pc \in {"nav_scheduled", "nav_stopped", "nav_idle", "nav_context", "nav_state"}
    /\ frame_scheduled_navigation' =
           IF h_pc = "nav_scheduled" THEN PyTrue ELSE frame_scheduled_navigation
    /\ frame_stopped_loading_event' =
           IF h_pc = "nav_stopped" THEN PyFalse ELSE frame_stopped_loading_event
    /\ network_almost_idle_event' =
           IF h_pc = "nav_idle" THEN PyFalse ELSE network_almost_idle_event
    /\ execution_context_created' =
           IF h_pc = "nav_context" THEN PyFalse ELSE execution_context_created
    /\ page_state' = IF h_pc = "nav_state" THEN PAGE_STATE_LOADING ELSE page_state
    /\ h_pc' = CASE h_pc = "nav_scheduled" -> "nav_stopped"
                 [] h_pc = "nav_stopped" -> "nav_idle"
                 [] h_pc = "nav_idle" -> "nav_context"
                 [] h_pc = "nav_context" -> "nav_state"
                 [] h_pc = "nav_state" -> "join"
    /\ f_epoch' = IF h_pc = "nav_state" THEN "event" ELSE f_epoch
    /\ f_since' = IF h_pc = "nav_state" THEN {} ELSE f_since
    /\ UNCHANGED <<h_msg, h_i, f_wait_ok>>
    /\ HandlerFrame

\* the two assignments of the branch of a sub-event
SubEventStep ==
    /\ h_pc \in {"flag_scheduled", "flag_event"}
    /\ IF h_pc = "flag_scheduled"
       THEN /\ frame_scheduled_navigation' = PyFalse
            /\ UNCHANGED <<frame_stopped_loading_event, network_almost_idle_event,
                           execution_context_created>>
            /\ h_pc' = "flag_event"
       ELSE /\ frame_stopped_loading_event' =
                   IF SubEventOf(h_msg) = FrameStoppedLoading
                   THEN PyTrue ELSE frame_stopped_loading_event
            /\ network_almost_idle_event' =
                   IF SubEventOf(h_msg) = NetworkAlmostIdle
                   THEN PyTrue ELSE network_almost_idle_event
            /\ execution_context_created' =
                   IF SubEventOf(h_msg) = ExecutionContextCreated
                   THEN PyTrue ELSE execution_context_created
            /\ UNCHANGED frame_scheduled_navigation
            /\ h_pc' = "join"
    /\ UNCHANGED <<page_state, h_msg, h_i, f_epoch, f_since, f_wait_ok>>
    /\ HandlerFrame

\* one operand of the join: a falsy flag ends the handler, a truthy one goes
\* on to the next operand, and after the last one to the assignment
JoinRead ==
    /\ h_pc = "join"
    /\ IF FieldValue(JoinFields[h_i]) # PyTrue
       THEN /\ h_pc' = "idle"
            /\ h_msg' = Msg(Absent, NoParams)
            /\ h_i' = 1
       ELSE IF h_i < Len(JoinFields)
       THEN /\ h_i' = h_i + 1
            /\ UNCHANGED <<h_pc, h_msg>>
       ELSE /\ h_pc' = "set_loaded"
            /\ h_i' = 1
            /\ UNCHANGED h_msg
    /\ UNCHANGED <<pageVars, f_epoch, f_since, f_wait_ok>>
    /\ HandlerFrame

\* self._page_state = self.PAGE_STATE_LOADED
SetLoaded ==
    /\ h_pc = "set_loaded"
    /\ page_state' = PAGE_STATE_LOADED
    /\ h_pc' = "idle"
    /\ h_msg' = Msg(Absent, NoParams)
    /\ UNCHANGED <<frame_stopped_loading_event, frame_scheduled_navigation,
                   network_almost_idle_event, execution_context_created,
                   h_i, f_epoch, f_since, f_wait_ok>>
    /\ HandlerFrame

\* what a navigation command on the caller's thread starts: a load of a
\* controller whose page was LOADED, or of one that had no loaded page
CommandEpoch ==
    IF page_state = PAGE_STATE_LOADED THEN "command on loaded" ELSE "command"

\* load_url, navigate_to_history_index and stop on the caller's thread
FieldCommand ==
    /\ \/ LoadUrlCode /\ f_epoch' = CommandEpoch
       \/ NavigateToHistoryIndexCode /\ f_epoch' = CommandEpoch
       \/ StopCode /\ f_epoch' = "stop"
    /\ f_since' = {}
    /\ f_wait_ok' = FALSE
    /\ UNCHANGED <<h_pc, h_msg, h_i, histVars, wflVars, pagVars, eqVars, djVars, init_pc,
                   init_steps, idVars, logVars, jreVars, nsVars, ns_seen_loading, cmdVars>>

\* wait_for_load on the caller's thread
FieldWait ==
    /\ \/ \E T \in 1..MaxTimeout : WaitForLoadCall(T) /\ f_wait_ok' = (f_epoch = "event")
       \/ WaitForLoadPoll /\ UNCHANGED f_wait_ok
       \/ WaitForLoadSleep /\ UNCHANGED f_wait_ok
    /\ UNCHANGED <<h_pc, h_msg, h_i, f_epoch, f_since, pageVars, handleVars, opVars,
                   histVars, pagVars, eqVars, djVars, init_pc, init_steps, idVars, logVars,
                   jreVars, nsVars, ns_seen_loading, cmdVars>>

NextFields ==
    \/ \E m \in FieldMessages : HandlerDispatch(m)
    \/ NavigatorStartedStep
    \/ SubEventStep
    \/ JoinRead
    \/ SetLoaded
    \/ FieldCommand
    \/ FieldWait

SpecFields == Init /\ [][NextFields]_vars

\* C26: after load_url or navigate_to_history_index has set LOADING on a
\* controller whose page was LOADED, the page is LOADED again only once each
\* of the three sub-events has been delivered since that call
C26_LoadedAgainAfterAllThree ==
    (f_epoch = "command on loaded" /\ page_state = PAGE_STATE_LOADED)
        => f_since = SubEvents

----------------------------------------------------------------------------
(* Runs made of inbound events only: the connection delivers messages and
   nobody calls load_url, navigate_to_history_index, stop or terminate. *)

NextEvents ==
    \E m \in Messages :
        PageStateHandler(m) /\ UNCHANGED <<restVars, wflVars, pagVars, eqVars, djVars>>

SpecEvents == Init /\ [][NextEvents]_vars

\* the three flags of the join, as the set of their values
JoinFlagValues ==
    {frame_stopped_loading_event, network_almost_idle_event, execution_context_created}

----------------------------------------------------------------------------
(* A controller after terminate() *)

\* terminate() has returned: the three handles are None
Terminated ==
    /\ proxy = None
    /\ chrome_process = None
    /\ chrome_conn = None

\* C29: once terminate() has returned, every command fails, and neither a
\* command nor an inbound event moves the page state away from NONE
C29_TerminatedStaysInert ==
    Terminated =>
        /\ page_state = PAGE_STATE_NONE
        /\ last_op \in {"load_url", "navigate_to_history_index", "stop"} => raised # None

----------------------------------------------------------------------------
(* The order of construction and a connection that cannot be made *)

\* TRUE when s is the beginning of t
IsPrefix(s, t) == Len(s) <= Len(t) /\ s = SubSeq(t, 1, Len(s))

\* __init__ has just failed with the error of connect_to_chrome
ConnectFailed ==
    /\ init_pc = "failed"
    /\ last_op = "init"
    /\ raised = "InstrumentedChromeException"

============================================================================
